---- MODULE Spec2Model ----
(***************************************************************************)
(* Session orchestration of the browser automation service (src/app.py):   *)
(* the registry `sessions`, the per-session asyncio.Lock, and the four     *)
(* request handlers create_session, execute_action, get_state and          *)
(* close_session, each cut at its await points.  All handlers run on one   *)
(* event loop, so the code between two awaits is one atomic step.          *)
(*                                                                         *)
(* The browser_use Driver is external: every Driver call either returns or *)
(* raises, chosen nondeterministically in every state.                     *)
(***************************************************************************)
EXTENDS Integers, Sequences, FiniteSets, TLC

\* Number of requests the clients issue (task t is the t-th request to reach
\* the event loop).
MaxTasks == 4
\* Number of identifiers uuid4 hands out.
MaxSessions == 2

Tasks == 1..MaxTasks
SessionIds == 1..MaxSessions

NoneV == "None"

VARIABLES
    sessions,     \* the registry: session_id -> [browser, context, lock] handles
    nextId,       \* the next fresh uuid4
    browserOpen,  \* Driver: browser handle -> launched and not closed
    contextOpen,  \* Driver: context handle -> opened and not closed
    page,         \* Driver: context handle -> last task that changed URL/tabs/DOM (0: none)
    lock,         \* lock handle -> asyncio.Lock state
    task,         \* task -> the frame of its handler: the await it is suspended at
                  \* and its locals
    sent,         \* the response the last step of the event loop sent, if any
    closed,       \* session ids for which close_session has returned success
    kind          \* the action the clients of this run put in their execute requests

vars == <<sessions, nextId, browserOpen, contextOpen, page, lock, task, sent, closed,
          kind>>

----------------------------------------------------------------------------
(* BrowserActionRequest: the action and which optional fields are given.   *)
(* A field is "given" when the code's test accepts it (`is None` for the   *)
(* integers, truthiness for the strings).                                  *)

Recognized ==
    {"go_to_url", "go_back", "refresh", "web_search", "click_element",
     "input_text", "scroll_down", "scroll_up", "scroll_to_text", "send_keys",
     "get_dropdown_options", "select_dropdown_option", "extract_content",
     "switch_tab", "open_tab", "close_tab", "wait"}

Actions == Recognized \cup {"bogus"}

\* The request fields each branch of execute_action reads.
Reads(a) ==
    CASE a \in {"go_to_url", "open_tab"} -> {"url"}
      [] a = "web_search" -> {"query"}
      [] a \in {"click_element", "get_dropdown_options"} -> {"index"}
      [] a \in {"input_text", "select_dropdown_option"} -> {"index", "text"}
      [] a \in {"scroll_down", "scroll_up"} -> {"scroll_amount"}
      [] a = "scroll_to_text" -> {"text"}
      [] a = "send_keys" -> {"keys"}
      [] a = "extract_content" -> {"goal"}
      [] a = "switch_tab" -> {"tab_id"}
      [] a = "wait" -> {"seconds"}
      [] OTHER -> {}

\* The fields a branch replaces by a default when they are absent.
Optional(a) ==
    CASE a \in {"scroll_down", "scroll_up"} -> {"scroll_amount"}
      [] a = "wait" -> {"seconds"}
      [] OTHER -> {}

\* A dispatcher whose open_tab branch does not test its url.
RequiredButOpenTab(a) ==
    IF a = "open_tab" THEN {} ELSE Reads(a) \ Optional(a)

\* The fields a branch tests, returning an error when one is absent, before
\* its first Driver call: every field it reads and has no default for.
Required(a) == Reads(a) \ Optional(a)

Goals == {"title", "links", "other"}

\* The requests: fields a branch never reads are left out, and the goal of
\* an extract_content is classified the way its branch tests it.
RequestsOf(a) ==
    UNION {
        { [action |-> a, has |-> h, goal |-> g] :
            g \in (IF "goal" \in h THEN Goals ELSE {NoneV}) }
        : h \in SUBSET Reads(a) }

Requests == UNION { RequestsOf(a) : a \in Actions }

NoReq == [action |-> NoneV, has |-> {}, goal |-> NoneV]

ToolResultResponse(output, error, base64_image, results) ==
    [output |-> output, error |-> error, base64_image |-> base64_image,
     results |-> results]

NoBody == ToolResultResponse(NoneV, NoneV, FALSE, FALSE)

----------------------------------------------------------------------------
(* The dispatcher of execute_action as data: the Driver calls each branch  *)
(* awaits, in order.                                                       *)

\* call: the awaited call; mutates: it changes the page; handler: the error
\* prefix of the inner try around it ("" when only the outer try covers it);
\* orNone: the code tests its result with `if not element`.
Call(call, mutates, handler, orNone) ==
    [call |-> call, mutates |-> mutates, handler |-> handler, orNone |-> orNone]

Program(r) ==
    CASE r.action = "go_to_url" ->
            << Call("get_current_page", FALSE, "", FALSE),
               Call("goto", TRUE, "", FALSE),
               Call("wait_for_load_state", FALSE, "", FALSE) >>
      [] r.action = "go_back" -> << Call("go_back", TRUE, "", FALSE) >>
      [] r.action = "refresh" -> << Call("refresh_page", TRUE, "", FALSE) >>
      [] r.action = "web_search" ->
            << Call("get_current_page", FALSE, "", FALSE),
               Call("goto", TRUE, "", FALSE),
               Call("wait_for_load_state", FALSE, "", FALSE),
               Call("evaluate", FALSE, "scrape", FALSE) >>
      [] r.action = "click_element" ->
            << Call("get_dom_element_by_index", FALSE, "", TRUE),
               Call("_click_element_node", TRUE, "Failed to click element", FALSE) >>
      [] r.action = "input_text" ->
            << Call("get_dom_element_by_index", FALSE, "", TRUE),
               Call("_input_text_element_node", TRUE, "Failed to input text", FALSE) >>
      [] r.action \in {"scroll_down", "scroll_up"} ->
            << Call("execute_javascript", TRUE, "", FALSE) >>
      [] r.action = "scroll_to_text" ->
            << Call("get_current_page", FALSE, "", FALSE),
               Call("evaluate", TRUE, "Failed to scroll to text", FALSE) >>
      [] r.action = "send_keys" ->
            << Call("get_current_page", FALSE, "", FALSE),
               Call("keyboard.press", TRUE, "", FALSE) >>
      [] r.action = "get_dropdown_options" ->
            << Call("get_dom_element_by_index", FALSE, "", TRUE),
               Call("get_current_page", FALSE, "", FALSE),
               Call("evaluate", FALSE, "", FALSE) >>
      [] r.action = "select_dropdown_option" ->
            << Call("get_dom_element_by_index", FALSE, "", TRUE),
               Call("get_current_page", FALSE, "", FALSE),
               Call("select_option", TRUE, "", FALSE) >>
      [] r.action = "extract_content" ->
            << Call("get_current_page", FALSE, "", FALSE),
               Call("content", FALSE, "", FALSE),
               Call(IF r.goal = "title" THEN "title" ELSE "evaluate", FALSE, "", FALSE) >>
      [] r.action = "switch_tab" ->
            << Call("switch_to_tab", TRUE, "", FALSE),
               Call("get_current_page", FALSE, "", FALSE),
               Call("wait_for_load_state", FALSE, "", FALSE) >>
      [] r.action = "open_tab" -> << Call("create_new_tab", TRUE, "", FALSE) >>
      [] r.action = "close_tab" -> << Call("close_current_tab", TRUE, "", FALSE) >>
      [] r.action = "wait" -> << Call("asyncio.sleep", FALSE, "", FALSE) >>
      [] OTHER -> << >>

\* asyncio.sleep is the one awaited call that is no Driver call.
IsDriverCall(c) == c.call # "asyncio.sleep"

\* Driver calls issued by the time the i-th awaited call of `prog` is pending.
DriverCalls(prog, i) ==
    Cardinality({ j \in 1..i : IsDriverCall(prog[j]) })

\* Branches that return with no success message.
OutputNothing(r) == NoneV

\* The success message of each branch.
Output(r) ==
    CASE r.action = "go_to_url" -> "Navigated to"
      [] r.action = "go_back" -> "Navigated back"
      [] r.action = "refresh" -> "Refreshed current page"
      [] r.action = "web_search" -> "Search results for"
      [] r.action = "click_element" -> "Clicked element at index"
      [] r.action = "input_text" -> "Input"
      [] r.action \in {"scroll_down", "scroll_up"} -> "Scrolled"
      [] r.action = "scroll_to_text" -> "Scrolled to text"
      [] r.action = "send_keys" -> "Sent keys"
      [] r.action = "get_dropdown_options" -> "Dropdown options"
      [] r.action = "select_dropdown_option" -> "Selected option"
      [] r.action = "extract_content" ->
            (CASE r.goal = "title" -> "Page title"
               [] r.goal = "links" -> "Extracted links"
               [] OTHER -> "Page content")
      [] r.action = "switch_tab" -> "Switched to tab"
      [] r.action = "open_tab" -> "Opened new tab with"
      [] r.action = "close_tab" -> "Closed current tab"
      [] r.action = "wait" -> "Waited for"
      [] OTHER -> NoneV

\* A required field is absent.
MissingField(r) == Required(r.action) \ r.has # {}

\* A dispatcher whose final else raises into the outer `except Exception`.
EarlyErrorElseRaises(r) ==
    CASE r.action \notin Recognized -> "Browser action failed"
      [] MissingField(r) -> "is required"
      [] OTHER -> NoneV

\* What execute_action returns before any await: the error of a branch whose
\* required field is absent, or of the final else; NoneV when it goes on.
EarlyError(r) ==
    CASE r.action \notin Recognized -> "Unknown action"
      [] MissingField(r) -> "is required"
      [] OTHER -> NoneV

\* Whether the branch returns once an awaited call has ended with `outcome`
\* ("ok"; "none": it returned a falsy element; "raise"): every raise is
\* caught by a try that returns, and so is the last call's success.
Returns(outcome, isLast) == outcome # "ok" \/ isLast

\* A dispatcher without the outer try: only the inner handlers catch.
AfterCallNoOuterTry(r, c, outcome) ==
    CASE outcome = "none" ->
            [status |-> 200,
             body |-> ToolResultResponse(NoneV, "Element with index not found",
                                         FALSE, FALSE)]
      [] outcome = "raise" /\ c.handler = "scrape" ->
            [status |-> 200,
             body |-> ToolResultResponse("Navigated to search results", "str(e)",
                                         FALSE, FALSE)]
      [] outcome = "raise" /\ c.handler \notin {"", "scrape"} ->
            [status |-> 200,
             body |-> ToolResultResponse(NoneV, c.handler, FALSE, FALSE)]
      [] outcome = "raise" /\ c.handler = "" ->
            [status |-> 500, body |-> ToolResultResponse(NoneV, NoneV, FALSE, FALSE)]
      [] OTHER ->
            [status |-> 200,
             body |-> ToolResultResponse(Output(r), NoneV, FALSE,
                                         r.action = "web_search")]

\* What execute_action then answers: every raise is caught by the inner try
\* around the call or by the outer `except Exception`, so the answer is
\* always a 200 carrying a ToolResultResponse.
Answer(status, body) == [status |-> status, body |-> body]

AfterCall(r, c, outcome) ==
    CASE outcome = "none" ->
            Answer(200, ToolResultResponse(NoneV, "Element with index not found",
                                           FALSE, FALSE))
      [] outcome = "raise" /\ c.handler = "scrape" ->
            Answer(200, ToolResultResponse("Navigated to search results", "str(e)",
                                           FALSE, FALSE))
      [] outcome = "raise" /\ c.handler \notin {"", "scrape"} ->
            Answer(200, ToolResultResponse(NoneV, c.handler, FALSE, FALSE))
      [] outcome = "raise" /\ c.handler = "" ->
            Answer(200, ToolResultResponse(NoneV, "Browser action failed", FALSE, FALSE))
      [] OTHER ->
            Answer(200, ToolResultResponse(Output(r), NoneV, FALSE,
                                           r.action = "web_search"))

\* The ways an awaited call can end.
Outcomes(c) ==
    {"ok"} \cup (IF IsDriverCall(c) THEN {"raise"} ELSE {})
           \cup (IF c.orNone THEN {"none"} ELSE {})

\* The Driver calls get_state awaits, all inside one try.
StateProgram == << "get_current_page", "title", "screenshot", "evaluate" >>

----------------------------------------------------------------------------
(* asyncio.Lock: `locked`, the FIFO of waiters, and whether the first      *)
(* waiter's future has been resolved by release().                         *)

Unlocked == [locked |-> FALSE, waiters |-> << >>, woken |-> FALSE]

\* A guard that never makes a caller wait.
CanAcquireAlways(lk) == TRUE

\* acquire() returns at once iff the lock is free and nobody waits.
CanAcquire(lk) == ~lk.locked /\ lk.waiters = << >>

\* A guard whose newest waiter is served first.
AcquireNewestFirst(lk, t) ==
    IF ~lk.locked /\ lk.waiters = << >>
    THEN [lk EXCEPT !.locked = TRUE]
    ELSE [lk EXCEPT !.waiters = << t >> \o @]

\* acquire() by task t up to its first suspension.
Acquire(lk, t) ==
    IF CanAcquire(lk)
    THEN [lk EXCEPT !.locked = TRUE]
    ELSE [lk EXCEPT !.waiters = Append(@, t)]

\* An exit that leaves the guard as it is.
ReleaseNothing(lk) == lk

\* A release that unlocks without waking the first waiter.
ReleaseNoWake(lk) ==
    IF lk.locked THEN [lk EXCEPT !.locked = FALSE] ELSE lk

\* release(): unlock and resolve the first waiter's future.
Release(lk) ==
    IF lk.locked
    THEN [locked |-> FALSE, waiters |-> lk.waiters, woken |-> lk.waiters # << >>]
    ELSE lk

\* The woken waiter resumes inside acquire(): it leaves the queue and locks.
Resume(lk) ==
    [locked |-> TRUE, waiters |-> Tail(lk.waiters), woken |-> FALSE]

----------------------------------------------------------------------------
\* Entries that all carry the first session's lock.
NewSessionSharedLock(s) == [browser |-> s, context |-> s, lock |-> 1]

\* The entry create_session stores: its own browser, context and lock.
NewSession(s) == [browser |-> s, context |-> s, lock |-> s]

NoSession == [browser |-> 0, context |-> 0, lock |-> 0]

NoResponse ==
    [task |-> 0, op |-> NoneV, sid |-> 0, status |-> 0, body |-> NoBody,
     req |-> NoReq, calls |-> 0, failed |-> FALSE]

\* A handler's frame: pc is the await it is suspended at, sid its session_id
\* (create_session: the generated one), session its local `session`
\* reference, req the request being dispatched, step the index of the
\* awaited call within the branch.  A frame is gone once the handler ends.
Frame(pc, sid, se, r, i) ==
    [pc |-> pc, sid |-> sid, session |-> se, req |-> r, step |-> i]

Idle == Frame("idle", 0, NoSession, NoReq, 0)
Done == Frame("done", 0, NoSession, NoReq, 0)

Init ==
    /\ sessions = [s \in {} |-> NoSession]
    /\ nextId = 1
    /\ browserOpen = [b \in SessionIds |-> FALSE]
    /\ contextOpen = [c \in SessionIds |-> FALSE]
    /\ page = [c \in SessionIds |-> 0]
    /\ lock = [l \in SessionIds |-> Unlocked]
    /\ task = [t \in Tasks |-> Idle]
    /\ sent = NoResponse
    /\ closed = {}
    /\ kind \in Actions

\* Runs whose execute requests are click_element (a call that may find no
\* element, then a page-changing call inside its own try) have MaxTasks
\* requests; the runs of every other action have one request fewer.
Deep == {"click_element"}

Budget == IF kind \in Deep THEN MaxTasks ELSE MaxTasks - 1

\* Requests are numbered in the order they reach the event loop.
CanIssue(t) ==
    /\ task[t].pc = "idle"
    /\ t <= Budget
    /\ IF t = 1 THEN TRUE ELSE task[t - 1].pc # "idle"

\* The handler of task t ends with a response: 200 with a body, or an HTTP
\* error (404 and 500 are exceptions leaving the handler).  The response is
\* recorded with the request, the number n of Driver calls the handler
\* issued and whether the last of them raised.
Respond(t, o, s, status, body, r, n, failed) ==
    /\ task' = [task EXCEPT ![t] = Done]
    /\ sent' = [task |-> t, op |-> o, sid |-> s, status |-> status,
                body |-> body, req |-> r, calls |-> n, failed |-> failed]

\* The handler of task t suspends at an await with frame f.
Suspend(t, f) ==
    /\ task' = [task EXCEPT ![t] = f]
    /\ sent' = NoResponse

----------------------------------------------------------------------------
(* create_session                                                          *)

\* Lines 58-70: a fresh id, the browser object, then await new_context.
create_session(t) ==
    /\ CanIssue(t)
    /\ nextId <= MaxSessions
    /\ nextId' = nextId + 1
    /\ browserOpen' = [browserOpen EXCEPT ![nextId] = TRUE]
    /\ Suspend(t, Frame("new_context", nextId, NoSession, NoReq, 0))
    /\ UNCHANGED <<sessions, contextOpen, page, lock, closed, kind>>

\* Lines 70-71: new_context has ended; then await get_current_page.
create_session_context(t) ==
    /\ task[t].pc = "new_context"
    /\ \E outcome \in {"ok", "raise"} :
        IF outcome = "ok"
        THEN /\ contextOpen' = [contextOpen EXCEPT ![task[t].sid] = TRUE]
             /\ Suspend(t, [task[t] EXCEPT !.pc = "get_current_page"])
        ELSE /\ Respond(t, "create", task[t].sid, 500, NoBody, NoReq, 1, TRUE)
             /\ contextOpen' = contextOpen
    /\ UNCHANGED <<sessions, nextId, browserOpen, page, lock, closed, kind>>

\* A store that replaces the whole registry by the new entry.
StoreAlone(reg, s) == [x \in {s} |-> NewSession(s)]

\* The registry after `sessions[session_id] = {...}`.
Store(reg, s) ==
    [x \in DOMAIN reg \cup {s} |-> IF x = s THEN NewSession(s) ELSE reg[x]]

\* Lines 71-81: get_current_page has ended; store the session and return.
create_session_store(t) ==
    /\ task[t].pc = "get_current_page"
    /\ \E outcome \in {"ok", "raise"} :
        IF outcome = "ok"
        THEN /\ sessions' = Store(sessions, task[t].sid)
             /\ Respond(t, "create", task[t].sid, 200, NoBody, NoReq, 2, FALSE)
        ELSE /\ Respond(t, "create", task[t].sid, 500, NoBody, NoReq, 2, TRUE)
             /\ sessions' = sessions
    /\ UNCHANGED <<nextId, browserOpen, contextOpen, page, lock, closed, kind>>

----------------------------------------------------------------------------
(* execute_action                                                          *)

\* Lines 93-320 up to the first await, entered by task t holding the lock of
\* its session se, the lock being in state lk: an early return releases the
\* lock, otherwise the first call of the branch is pending.
Dispatch(t, s, se, lk) ==
    \E r \in RequestsOf(kind) :
        IF EarlyError(r) # NoneV
        THEN /\ Respond(t, "execute", s, 200,
                        ToolResultResponse(NoneV, EarlyError(r), FALSE, FALSE), r, 0,
                        FALSE)
             /\ lock' = [lock EXCEPT ![se.lock] = Release(lk)]
        ELSE /\ Suspend(t, Frame("driver", s, se, r, 1))
             /\ lock' = [lock EXCEPT ![se.lock] = lk]

\* Lines 87-92: the lookup, then `async with session["lock"]`.
execute_action(t) ==
    /\ CanIssue(t)
    /\ \E s \in SessionIds :
        IF s \notin DOMAIN sessions
        THEN /\ Respond(t, "execute", s, 404, NoBody, NoReq, 0, FALSE)
             /\ lock' = lock
        ELSE LET se == sessions[s]
                 lk == lock[se.lock]
             IN  IF CanAcquire(lk)
                 THEN Dispatch(t, s, se, Acquire(lk, t))
                 ELSE /\ Suspend(t, Frame("lock", s, se, NoReq, 0))
                      /\ lock' = [lock EXCEPT ![se.lock] = Acquire(lk, t)]
    /\ UNCHANGED <<sessions, nextId, browserOpen, contextOpen, page, closed, kind>>

\* Line 92: release() has resolved this waiter's future; acquire() returns.
execute_action_locked(t) ==
    /\ task[t].pc = "lock"
    /\ LET se == task[t].session
           lk == lock[se.lock]
       IN  /\ lk.woken
           /\ lk.waiters # << >>
           /\ Head(lk.waiters) = t
           /\ Dispatch(t, task[t].sid, se, Resume(lk))
    /\ UNCHANGED <<sessions, nextId, browserOpen, contextOpen, page, closed, kind>>

\* Lines 101-314: the awaited call of the branch has ended; the branch goes
\* on to its next call or returns, and `async with` releases the lock.  A
\* page-changing call that raises may or may not have changed the page.
execute_action_driver(t) ==
    /\ task[t].pc = "driver"
    /\ LET r == task[t].req
           prog == Program(r)
           i == task[t].step
           c == prog[i]
           se == task[t].session
       IN  \E outcome \in Outcomes(c), effect \in BOOLEAN :
            /\ effect => c.mutates
            /\ (outcome = "ok" /\ c.mutates) => effect
            /\ page' = IF effect THEN [page EXCEPT ![se.context] = t] ELSE page
            /\ IF Returns(outcome, i = Len(prog))
               THEN /\ Respond(t, "execute", task[t].sid,
                               AfterCall(r, c, outcome).status,
                               AfterCall(r, c, outcome).body,
                               r, DriverCalls(prog, i), outcome = "raise")
                    /\ lock' = [lock EXCEPT ![se.lock] = Release(@)]
               ELSE /\ Suspend(t, [task[t] EXCEPT !.step = i + 1])
                    /\ lock' = lock
    /\ UNCHANGED <<sessions, nextId, browserOpen, contextOpen, closed, kind>>

----------------------------------------------------------------------------
(* get_state                                                               *)

\* A get_state that requests the session's lock before its snapshot.
get_state_guarded(t) ==
    /\ CanIssue(t)
    /\ \E s \in SessionIds :
        IF s \notin DOMAIN sessions
        THEN /\ Respond(t, "get_state", s, 404, NoBody, NoReq, 0, FALSE)
             /\ lock' = lock
        ELSE /\ Suspend(t, Frame("snapshot", s, sessions[s], NoReq, 1))
             /\ lock' = [lock EXCEPT ![sessions[s].lock] = Acquire(@, t)]
    /\ UNCHANGED <<sessions, nextId, browserOpen, contextOpen, page, closed, kind>>

\* Lines 326-334: the lookup, then await get_current_page; no lock.
get_state(t) ==
    /\ CanIssue(t)
    /\ \E s \in SessionIds :
        IF s \notin DOMAIN sessions
        THEN Respond(t, "get_state", s, 404, NoBody, NoReq, 0, FALSE)
        ELSE Suspend(t, Frame("snapshot", s, sessions[s], NoReq, 1))
    /\ UNCHANGED <<sessions, nextId, browserOpen, contextOpen, page, lock, closed, kind>>

\* Lines 334-380: a call of the snapshot has ended.
get_state_driver(t) ==
    /\ task[t].pc = "snapshot"
    /\ \E outcome \in {"ok", "raise"} :
        IF outcome = "ok" /\ task[t].step < Len(StateProgram)
        THEN Suspend(t, [task[t] EXCEPT !.step = @ + 1])
        ELSE Respond(t, "get_state", task[t].sid, 200,
                     IF outcome = "ok"
                     THEN ToolResultResponse("state_info", NoneV, TRUE, FALSE)
                     ELSE ToolResultResponse(NoneV, "Failed to get browser state",
                                             FALSE, FALSE),
                     NoReq, task[t].step, outcome = "raise")
    /\ UNCHANGED <<sessions, nextId, browserOpen, contextOpen, page, lock, closed, kind>>

----------------------------------------------------------------------------
(* close_session                                                           *)

\* Lines 386-393: the lookup, then await context.close().
close_session(t) ==
    /\ CanIssue(t)
    /\ \E s \in SessionIds :
        IF s \notin DOMAIN sessions
        THEN Respond(t, "close", s, 404, NoBody, NoReq, 0, FALSE)
        ELSE Suspend(t, Frame("context_close", s, sessions[s], NoReq, 0))
    /\ UNCHANGED <<sessions, nextId, browserOpen, contextOpen, page, lock, closed, kind>>

\* Lines 393-395: context.close() has ended; then await browser.close().
\* A close that raises may or may not have closed the context.
close_session_context(t) ==
    /\ task[t].pc = "context_close"
    /\ \E outcome \in {"ok", "raise"}, effect \in BOOLEAN :
        /\ (outcome = "ok") => effect
        /\ contextOpen' = IF effect
                          THEN [contextOpen EXCEPT ![task[t].session.context] = FALSE]
                          ELSE contextOpen
        /\ IF outcome = "ok"
           THEN Suspend(t, [task[t] EXCEPT !.pc = "browser_close"])
           ELSE Respond(t, "close", task[t].sid, 500, NoBody, NoReq, 1, TRUE)
    /\ UNCHANGED <<sessions, nextId, browserOpen, page, lock, closed, kind>>

\* A removal that leaves the entry in place.
DeleteNothing(reg, s) == reg

\* The registry after `del sessions[session_id]`.
Delete(reg, s) == [x \in DOMAIN reg \ {s} |-> reg[x]]

\* A teardown that removes the entry whether browser.close() raised or not.
AfterTeardownAlwaysRemoves(reg, s, outcome) ==
    [status |-> IF outcome = "ok" THEN 200 ELSE 500, sessions |-> Delete(reg, s)]

\* Lines 395-400 once browser.close() has ended: `del sessions[session_id]`
\* and success, or the 500 of the except clause, which a raising close and
\* the KeyError of a missing entry both reach; the registry that results.
AfterTeardown(reg, s, outcome) ==
    IF outcome = "ok" /\ s \in DOMAIN reg
    THEN [status |-> 200, sessions |-> Delete(reg, s)]
    ELSE [status |-> 500, sessions |-> reg]

\* Lines 395-400: browser.close() has ended.  A close that raises may or may
\* not have closed the browser.
close_session_browser(t) ==
    /\ task[t].pc = "browser_close"
    /\ \E outcome \in {"ok", "raise"}, effect \in BOOLEAN :
        LET end == AfterTeardown(sessions, task[t].sid, outcome)
        IN  /\ (outcome = "ok") => effect
            /\ browserOpen' = IF effect
                              THEN [browserOpen EXCEPT ![task[t].session.browser] = FALSE]
                              ELSE browserOpen
            /\ sessions' = end.sessions
            /\ closed' = IF end.status = 200 THEN closed \cup {task[t].sid} ELSE closed
            /\ Respond(t, "close", task[t].sid, end.status, NoBody, NoReq, 2,
                       outcome = "raise")
    /\ UNCHANGED <<nextId, contextOpen, page, lock, kind>>

----------------------------------------------------------------------------
Next ==
    \E t \in Tasks :
        \/ create_session(t)
        \/ create_session_context(t)
        \/ create_session_store(t)
        \/ execute_action(t)
        \/ execute_action_locked(t)
        \/ execute_action_driver(t)
        \/ get_state(t)
        \/ get_state_driver(t)
        \/ close_session(t)
        \/ close_session_context(t)
        \/ close_session_browser(t)

Spec == Init /\ [][Next]_vars

\* The steps the event loop takes on its own for task t: the awaited call or
\* the wait for the lock has ended and the handler runs to its next await.
\* (Issuing a request is the client's step.)
Continue(t) ==
    \/ create_session_context(t)
    \/ create_session_store(t)
    \/ execute_action_locked(t)
    \/ execute_action_driver(t)
    \/ get_state_driver(t)
    \/ close_session_context(t)
    \/ close_session_browser(t)

\* Every awaited call eventually returns or raises, and the event loop runs
\* every handler that is ready.
FairSpec == Spec /\ \A t \in Tasks : WF_vars(Continue(t))

\* The session whose Driver may hang inside an execute (lines 92-104: no
\* timeout, no cancellation).
HungSession == 1

\* The awaited calls that are bound to end: all but those of an execute on
\* the session whose Driver may hang.
ContinueUnlessHung(t) ==
    /\ ~(task[t].pc = "driver" /\ task[t].sid = HungSession)
    /\ Continue(t)

HungSpec == Spec /\ \A t \in Tasks : WF_vars(ContinueUnlessHung(t))

----------------------------------------------------------------------------
(* Properties                                                              *)

\* The execute calls inside `async with` on the session with identifier s.
InDriver(s) == { t \in Tasks : task[t].pc = "driver" /\ task[t].sid = s }

\* The execute calls waiting in acquire() for the session with identifier s.
Waiting(s) == { t \in Tasks : task[t].pc = "lock" /\ task[t].sid = s }

\* C1: for every session, at most one execute call holds the session's guard
\* (is in its Driver phase), and the guard is locked while one does.
C1_OneHolderPerSession ==
    \A s \in SessionIds :
        /\ Cardinality(InDriver(s)) <= 1
        /\ InDriver(s) # {} => lock[s].locked

\* One execute call is in its Driver phase while another waits for the guard
\* of the same session.
C1_Witness ==
    \E s \in SessionIds : InDriver(s) # {} /\ Waiting(s) # {}

\* This step takes task b from the lookup or from the wait for the guard
\* into the dispatcher of session s (which it may leave in the same step).
StartsDriverPhase(b, s) ==
    /\ task[b].pc \in {"idle", "lock"}
    /\ \/ task'[b].pc = "driver" /\ task'[b].sid = s
       \/ /\ task'[b].pc = "done"
          /\ sent'.task = b /\ sent'.op = "execute" /\ sent'.status = 200
          /\ sent'.sid = s

\* C2: execute calls on one session enter the dispatcher in the order they
\* requested the guard: when an execute starts its Driver phase, no execute
\* that requested the same session's guard earlier (a lower task number) is
\* still waiting or still in its Driver phase.
C2_ArrivalOrder ==
    [][\A b \in Tasks, s \in SessionIds :
         StartsDriverPhase(b, s) =>
            \A a \in Tasks :
                a < b => ~(task[a].pc \in {"lock", "driver"} /\ task[a].sid = s)]_vars

\* An execute has just returned and released the guard to the first of two
\* waiters queued in arrival order.
C2_Witness ==
    \E s \in SessionIds :
        /\ sent.op = "execute" /\ sent.status = 200 /\ sent.sid = s
        /\ lock[s].woken
        /\ Len(lock[s].waiters) = 2
        /\ lock[s].waiters[1] < lock[s].waiters[2]

\* C3: an execute waits only for the guard of its own session: it is queued
\* on that guard and on no other, and while it waits another execute of the
\* same session holds the guard or has just been handed it.
C3_NoCrossSessionBlocking ==
    \A t \in Tasks :
        task[t].pc = "lock" =>
            /\ \A l \in SessionIds :
                (\E i \in 1..Len(lock[l].waiters) : lock[l].waiters[i] = t)
                    <=> (l = task[t].sid)
            /\ \/ InDriver(task[t].sid) # {}
               \/ /\ lock[task[t].sid].woken
                  /\ lock[task[t].sid].waiters[1] \in Waiting(task[t].sid)

\* Two execute calls are in their Driver phases at once, on two sessions.
C3_Witness ==
    \E s1, s2 \in SessionIds :
        s1 # s2 /\ InDriver(s1) # {} /\ InDriver(s2) # {}

\* C4: whenever no execute call is in progress on a session (none waits for
\* its guard, none is in its Driver phase), the guard is not held.
C4_GuardReleased ==
    \A s \in SessionIds :
        (InDriver(s) = {} /\ Waiting(s) = {}) =>
            (~lock[s].locked /\ lock[s].waiters = << >>)

\* An execute has just returned the error of a raising Driver call and its
\* session's guard is free.
C4_Witness ==
    /\ sent.op = "execute" /\ sent.failed
    /\ sent.body.error = "Browser action failed"
    /\ ~lock[sent.sid].locked
    /\ InDriver(sent.sid) = {} /\ Waiting(sent.sid) = {}

\* This step is the first of an `o` request of task t on identifier s.
Issues(t, o, s) ==
    /\ task[t].pc = "idle"
    /\ \/ /\ task'[t].pc = "done"
          /\ sent'.task = t /\ sent'.op = o /\ sent'.sid = s
       \/ /\ o = "execute" /\ task'[t].pc \in {"lock", "driver"}
          /\ task'[t].sid = s
       \/ /\ o = "get_state" /\ task'[t].pc = "snapshot"
          /\ task'[t].sid = s

\* C5: once a close call on an identifier has returned success, every
\* execute or get_state call issued on it ends in its first step with the
\* not-found error, having made no Driver call.
C5_ClosedIsNotFound ==
    [][\A t \in Tasks, s \in closed, o \in {"execute", "get_state"} :
         Issues(t, o, s) =>
            /\ task'[t].pc = "done"
            /\ sent'.status = 404
            /\ sent'.calls = 0]_vars

\* An execute or get_state on a successfully closed identifier has just
\* been answered with not-found.
C5_Witness ==
    /\ sent.op \in {"execute", "get_state"}
    /\ sent.sid \in closed
    /\ sent.status = 404

\* C6: a session identifier is in the Registry if and only if the browser
\* and the context created for it are open.
C6_RegisteredIffOpen ==
    \A s \in SessionIds :
        (s \in DOMAIN sessions) <=> (browserOpen[s] /\ contextOpen[s])

\* C7: an execute call answers with an exception only for the failed lookup
\* (404, the identifier not registered); otherwise it returns a
\* ToolResultResponse, whose error is set whenever a Driver call raised.
C7_NeverRaises ==
    sent.op = "execute" =>
        \/ sent.status = 404 /\ sent.sid \notin DOMAIN sessions /\ sent.calls = 0
        \/ sent.status = 200 /\ (sent.failed => sent.body.error # NoneV)

\* An execute on a registered session has just returned the error of a Driver
\* call that raised after earlier calls of the branch had succeeded.
C7_Witness ==
    /\ sent.op = "execute" /\ sent.failed /\ sent.status = 200
    /\ sent.sid \in DOMAIN sessions
    /\ sent.calls > 1
    /\ sent.body.error # NoneV

\* The required fields of each action kind, as the action table states them.
TableRequired(a) ==
    CASE a = "go_to_url" -> {"url"}
      [] a = "web_search" -> {"query"}
      [] a = "click_element" -> {"index"}
      [] a = "input_text" -> {"index", "text"}
      [] a = "scroll_to_text" -> {"text"}
      [] a = "send_keys" -> {"keys"}
      [] a = "get_dropdown_options" -> {"index"}
      [] a = "select_dropdown_option" -> {"index", "text"}
      [] a = "extract_content" -> {"goal"}
      [] a = "switch_tab" -> {"tab_id"}
      [] a = "open_tab" -> {"url"}
      [] OTHER -> {}

\* This step ends the handler of task t with a response.
Responds(t) ==
    task[t].pc # "done" /\ task'[t].pc = "done" /\ sent'.task = t

\* C8: an execute whose request lacks a field its action kind requires
\* returns the validation error having issued no Driver call, and the step
\* that answers it changes neither the pages, nor the browsers and contexts,
\* nor the Registry.
C8_ValidationBeforeDriver ==
    [][\A t \in Tasks :
         ( /\ Responds(t)
           /\ sent'.op = "execute" /\ sent'.status = 200
           /\ TableRequired(sent'.req.action) \ sent'.req.has # {} )
         => /\ sent'.calls = 0
            /\ sent'.body.error = "is required"
            /\ sent'.body.output = NoneV
            /\ page' = page
            /\ sessions' = sessions
            /\ browserOpen' = browserOpen
            /\ contextOpen' = contextOpen]_vars

\* A go_to_url without url has just been answered with the validation error.
C8_Witness ==
    /\ sent.op = "execute" /\ sent.status = 200
    /\ sent.req.action = "go_to_url" /\ "url" \notin sent.req.has
    /\ sent.body.error = "is required"
    /\ sent.calls = 0

\* C9: once an execute call has returned the error of a Driver exception,
\* its session is still in the Registry with its own browser, context and
\* guard, and the guard is free for the next execute (unlocked, and handed to
\* the first waiter if there is one).
C9_UsableAfterException ==
    (sent.op = "execute" /\ sent.failed) =>
        /\ sent.sid \in DOMAIN sessions
        /\ sessions[sent.sid] = [browser |-> sent.sid, context |-> sent.sid,
                                 lock |-> sent.sid]
        /\ ~lock[sent.sid].locked
        /\ lock[sent.sid].waiters # << >> => lock[sent.sid].woken

\* C10: once a close call has ended because closing the context or the
\* browser failed, it has answered with the server error and the session's
\* entry is still in the Registry.
C10_FailedCloseKeepsEntry ==
    (sent.op = "close" /\ sent.failed) =>
        /\ sent.status = 500
        /\ sent.sid \in DOMAIN sessions

\* C11: a close call that found its session answers success or the server
\* error, the server error only when a teardown call raised; a close whose
\* two teardown calls both returned answers success.
C11_ServerErrorOnlyOnTeardownFailure ==
    (sent.op = "close" /\ sent.status # 404) =>
        /\ sent.status \in {200, 500}
        /\ sent.status = 500 => sent.failed
        /\ (sent.calls = 2 /\ ~sent.failed) => sent.status = 200

\* C12: every entry of the Registry is stored under its own identifier with
\* the browser, context and guard created for it; an entry leaves the
\* Registry only in the step in which a close call on it returns success;
\* and a create that returns yields an identifier that was neither live nor
\* used before, and has stored the entry under it.
C12_RegistryIntact ==
    [][/\ \A s \in DOMAIN sessions' :
            sessions'[s] = [browser |-> s, context |-> s, lock |-> s]
       /\ \A s \in DOMAIN sessions :
            \/ s \in DOMAIN sessions'
            \/ sent'.op = "close" /\ sent'.status = 200 /\ sent'.sid = s
       /\ \A t \in Tasks :
            (Responds(t) /\ sent'.op = "create" /\ sent'.status = 200) =>
                /\ sent'.sid \notin DOMAIN sessions
                /\ sent'.sid \notin closed
                /\ sent'.sid \in DOMAIN sessions']_vars

\* A create has just returned, two sessions are live, and a close call on
\* the other session is in flight.
C12_Witness ==
    /\ sent.op = "create" /\ sent.status = 200
    /\ Cardinality(DOMAIN sessions) = 2
    /\ \E t \in Tasks :
        /\ task[t].pc \in {"context_close", "browser_close"}
        /\ task[t].sid # sent.sid
        /\ task[t].sid \in DOMAIN sessions

\* C13: every ToolResultResponse of execute or get_state has output or error
\* set (not None); both are set exactly when a web_search navigated (three
\* calls returned) and its scraping call, the fourth, raised; in every other
\* outcome exactly one is set.
C13_OutputOrError ==
    (sent.op \in {"execute", "get_state"} /\ sent.status = 200) =>
        LET o == sent.body.output # NoneV
            e == sent.body.error # NoneV
        IN  /\ o \/ e
            /\ (o /\ e) <=> /\ sent.op = "execute"
                            /\ sent.req.action = "web_search"
                            /\ sent.failed
                            /\ sent.calls = 4

\* A web_search has just returned its navigation message together with the
\* error of the scraping call.
C13_Witness ==
    /\ sent.op = "execute" /\ sent.req.action = "web_search"
    /\ sent.body.output = "Navigated to search results"
    /\ sent.body.error # NoneV

\* C14: an execute with an action kind outside the recognized vocabulary,
\* on a session it found, never awaits a call: it answers in its dispatching
\* step with a ToolResultResponse whose error is "Unknown action" and whose
\* output is None, having issued no Driver call and changed no page, and
\* that step leaves the session's guard unlocked.
C14_UnknownAction ==
    [][/\ \A t \in Tasks :
            task'[t].pc = "driver" => task'[t].req.action \in Recognized
       /\ \A t \in Tasks :
            ( /\ Responds(t)
              /\ sent'.op = "execute" /\ sent'.status # 404
              /\ sent'.req.action \notin Recognized )
            => /\ sent'.status = 200
               /\ sent'.body.error = "Unknown action"
               /\ sent'.body.output = NoneV
               /\ sent'.calls = 0
               /\ page' = page
               /\ ~lock'[sent'.sid].locked]_vars

\* An execute with action "bogus" has just been answered and the guard of
\* its session is free.
C14_Witness ==
    /\ sent.op = "execute" /\ sent.status = 200
    /\ sent.req.action = "bogus"
    /\ sent.body.error = "Unknown action"
    /\ sent.sid \in DOMAIN sessions
    /\ lock[sent.sid] = Unlocked

\* C15: a close call awaits browser.close() only once its context.close()
\* has returned, the context then being closed and the browser untouched so
\* far; a close whose context.close() raised ends with the server error
\* without touching the browser or the Registry; a browser is closed only by
\* a close call that is awaiting browser.close(); and an entry is removed
\* only by a close call whose browser.close() has returned, with success,
\* the context and the browser both being closed.
C15_TeardownOrder ==
    [][/\ \A t \in Tasks :
            task[t].pc = "context_close" =>
                /\ task'[t].pc = "browser_close" =>
                      /\ ~contextOpen'[task[t].session.context]
                      /\ browserOpen' = browserOpen
                      /\ sessions' = sessions
                /\ task'[t].pc = "done" =>
                      /\ sent'.task = t /\ sent'.status = 500 /\ sent'.failed
                      /\ browserOpen' = browserOpen
                      /\ sessions' = sessions
       /\ \A b \in SessionIds :
            (browserOpen[b] /\ ~browserOpen'[b]) =>
                \E t \in Tasks :
                    /\ task[t].pc = "browser_close" /\ task[t].session.browser = b
                    /\ Responds(t)
       /\ \A s \in DOMAIN sessions \ DOMAIN sessions' :
            \E t \in Tasks :
                /\ task[t].pc = "browser_close" /\ task[t].sid = s
                /\ Responds(t)
                /\ sent'.status = 200 /\ ~sent'.failed
                /\ ~contextOpen'[sessions[s].context]
                /\ ~browserOpen'[sessions[s].browser]]_vars

\* A close call has just ended with the server error because context.close()
\* raised: the browser is still open and the entry is still registered.
C15_Witness ==
    /\ sent.op = "close" /\ sent.status = 500 /\ sent.failed /\ sent.calls = 1
    /\ sent.sid \in DOMAIN sessions
    /\ browserOpen[sessions[sent.sid].browser]

\* C16: no step of a get_state call (its lookup, or the end of one of its
\* Driver reads) changes a guard, the Registry or a page, and a get_state call
\* is never left waiting for a guard: with the session found it goes straight
\* to its reads, whatever the state of the guard.
C16_GetStateUnguarded ==
    [][\A t \in Tasks :
         ( \/ task[t].pc = "snapshot" /\ task'[t] # task[t]
           \/ \E s \in SessionIds : Issues(t, "get_state", s) )
         => /\ lock' = lock
            /\ sessions' = sessions
            /\ page' = page
            /\ task'[t].pc \in {"snapshot", "done"}
            /\ (task[t].pc = "idle" /\ task'[t].pc = "done") => sent'.status = 404]_vars

\* A get_state call has just returned its snapshot after all four reads
\* while an execute call holds the same session's guard mid-action.
C16_Witness ==
    /\ sent.op = "get_state" /\ sent.status = 200
    /\ sent.body.output = "state_info" /\ sent.calls = 4
    /\ InDriver(sent.sid) # {}
    /\ lock[sent.sid].locked

\* C18: whenever an execute call takes a session's guard and starts its
\* Driver phase, straight after the lookup or after waiting for the guard,
\* the session is in the Registry and its context is open.
C18_DriverPhaseOnLiveSession ==
    [][\A b \in Tasks, s \in SessionIds :
         StartsDriverPhase(b, s) =>
            /\ s \in DOMAIN sessions
            /\ contextOpen[sessions[s].context]]_vars

\* C19: no close call is awaiting the close of a session's context or
\* browser while an execute call holds that session's guard.
C19_NoTeardownUnderGuard ==
    \A t \in Tasks :
        task[t].pc \in {"context_close", "browser_close"} =>
            /\ ~lock[task[t].session.lock].locked
            /\ InDriver(task[t].sid) = {}

\* C17: while a Driver call of an execute on a session has not returned,
\* the session's guard stays locked and no other execute that found the
\* session starts its Driver phase or returns; and when the calls that may
\* never return are those of executes on one session, every execute that
\* found another session still completes.
C17_HungCallStarvesOnlyItsSession ==
    /\ [][\A s \in SessionIds, h \in Tasks :
            (h \in InDriver(s) /\ task'[h].pc = "driver") =>
                /\ lock'[s].locked
                /\ \A b \in Tasks \ {h} : ~StartsDriverPhase(b, s)]_vars
    /\ \A b \in Tasks :
            (task[b].pc \in {"lock", "driver"} /\ task[b].sid # HungSession)
                ~> (task[b].pc = "done")

\* An execute on another session has just returned its success message
\* while an execute on the hanging session is still in its Driver call.
C17_Witness ==
    /\ InDriver(HungSession) # {}
    /\ sent.op = "execute" /\ sent.status = 200
    /\ sent.sid # HungSession
    /\ sent.body.output # NoneV
    /\ sent.calls > 0

\* C20: when every awaited call eventually returns or raises, every execute
\* call waiting for its session's guard eventually takes it, and every
\* execute call that found its session eventually returns.
C20_EveryExecuteReturns ==
    \A t \in Tasks :
        /\ (task[t].pc = "lock") ~> (task[t].pc \in {"driver", "done"})
        /\ (task[t].pc \in {"lock", "driver"}) ~> (task[t].pc = "done")

\* An execute call has just returned its success message and its release
\* has handed the guard to the one execute call that was waiting for it.
C20_Witness ==
    \E s \in SessionIds :
        /\ sent.op = "execute" /\ sent.sid = s /\ sent.body.output # NoneV
        /\ lock[s].woken
        /\ Len(lock[s].waiters) = 1
        /\ lock[s].waiters[1] \in Waiting(s)

====
